---- MODULE Spec2Model ----
(***************************************************************************)
(* A model of the geometry, target assignment and non-maximum suppression  *)
(* of src/yolo.py.                                                         *)
(*                                                                         *)
(* Numbers.  The program computes on float32 tensors.  The model is fixed  *)
(* point on lattices where the float32 result is known:                    *)
(*   - suppression and bbox_iou boxes: an integer v stands for v / Unit,   *)
(*     a power of two, so coordinates, halves, areas and unions are exact  *)
(*     in float32 (magnitudes up to 16);                                   *)
(*   - objectness and class scores in ScoreUnit-ths (eighths), their       *)
(*     product in ScoreUnit^2-ths, exact in float32;                       *)
(*   - conf_threshold in ConfUnit-ths (tenths), iou_threshold in           *)
(*     ThrUnit-ths (quarters);                                             *)
(*   - labels in LabelUnit-ths (tenths) of the image, centers within       *)
(*     [-1.2, 1.2] and sizes within [0, 1.2].                              *)
(* xywh_to_xyxy halves a size; the model doubles the denominator instead,  *)
(* so corner coordinates are in half units of the box they come from.  An  *)
(* IoU is kept as the operands of the division, inter and union, with the  *)
(* denominator of the areas; each comparison is the one the float32        *)
(* computation makes (see IouLt).                                          *)
(***************************************************************************)
EXTENDS Integers, Sequences, FiniteSets

VARIABLES
    \* non_max_suppression, one image of the batch
    prediction,      \* flat (A*gh*gw) rows [box (cx,cy,w,h), obj, cls scores]
    conf_threshold,  \* in ConfUnit-ths
    iou_threshold,   \* in ThrUnit-ths
    boxes_xyxy,      \* remaining candidate boxes, corners in (2 * Unit)-ths
    scores,          \* remaining candidate scores, in ScoreUnit^2-ths
    classes,         \* remaining candidate classes
    keep,            \* detections kept so far: [box, score, cls]
    iters,           \* iterations of the while loop executed
    nms_pc,          \* "start" | "loop" | "done"
    \* YOLOLoss.forward, target assignment for one image
    targets,         \* ground-truth rows [cls, x, y, w, h]
    t,               \* target tensor, kept sparse: (anchor, gj, gi) -> channels
    gt_idx,          \* index of the next ground-truth row
    loss_pc,         \* "assign" | "done" | "IndexError"
    \* bbox_iou called on its own
    iou_box1, iou_box2, iou_center, iou_corner, iou_pc

nmsVars == <<prediction, conf_threshold, iou_threshold, boxes_xyxy, scores,
             classes, keep, iters, nms_pc>>
assignVars == <<targets, t, gt_idx, loss_pc>>
iouVars == <<iou_box1, iou_box2, iou_center, iou_corner, iou_pc>>
vars == <<nmsVars, assignVars, iouVars>>

(***************************************************************************)
(* Representation                                                          *)
(***************************************************************************)
\* Denominator of box coordinates given to non_max_suppression and bbox_iou.
Unit == 2 * 2
\* Denominator of objectness and class scores.
ScoreUnit == 2 * 4
\* Denominators of conf_threshold and of iou_threshold.
ConfUnit == 2 * 5
ThrUnit == 2 * 2
\* Denominator of label coordinates (fractions of the image).
LabelUnit == 2 * 5

\* eps of bbox_iou is 1 / EpsDen.
EpsDen == 10000000

Max(a, b) == IF a >= b THEN a ELSE b
Min(a, b) == IF a <= b THEN a ELSE b

\* tensor.clamp(min=0)
Clamp0(v) == Max(v, 0)

(***************************************************************************)
(* Geometry                                                                *)
(***************************************************************************)
\* (x - w/2, y - h/2, x + w/2, y + h/2), in half units of box: a result v
\* over the doubled denominator is the code's (2x - w) / 2 and so on.
xywh_to_xyxy(box) ==
    <<2 * box[1] - box[3], 2 * box[2] - box[4],
      2 * box[1] + box[3], 2 * box[2] + box[4]>>

\* Lines 103-116 of bbox_iou, on two boxes already in corner form with
\* coordinates in u-ths. The value is inter / (uni + eps), returned as the
\* operands of the division, areas in den-ths.
IouOfCorners(b1, b2, u) ==
    LET x1 == Max(b1[1], b2[1])
        y1 == Max(b1[2], b2[2])
        x2 == Min(b1[3], b2[3])
        y2 == Min(b1[4], b2[4])
        inter_w == Clamp0(x2 - x1)
        inter_h == Clamp0(y2 - y1)
        inter == inter_w * inter_h
        area1 == Clamp0(b1[3] - b1[1]) * Clamp0(b1[4] - b1[2])
        area2 == Clamp0(b2[3] - b2[1]) * Clamp0(b2[4] - b2[2])
    IN  [inter |-> inter, uni |-> area1 + area2 - inter, den |-> u * u]

\* box.shape[-1] == 4 holds of every box (both encodings have four numbers),
\* so both arguments are always converted. The boxes are in u-ths.
bbox_iou(box1, box2, u) ==
    IouOfCorners(xywh_to_xyxy(box1), xywh_to_xyxy(box2), 2 * u)

\* iou < tn/td as float32 computes it, for td a power of two. inter and union
\* are exact; union + eps rounds back to union when union >= 2 (eps is below
\* half a unit in the last place there) and to a larger number when
\* union < 2. So a ratio inter / union equal to the threshold compares equal
\* (not below) when union >= 2 and below when union < 2; a ratio that differs
\* from the threshold differs by far more than eps and the rounding.
IouLt(iou, tn, td) ==
    \/ iou.inter * td < tn * iou.uni
    \/ /\ iou.inter * td = tn * iou.uni
       /\ tn > 0
       /\ iou.uni < 2 * iou.den

\* inter / (uni + eps) > tn/td over the reals
IouGt(iou, tn, td) ==
    iou.inter * td - tn * iou.uni > (tn * iou.den) \div EpsDen

\* r > s for two IoU values over the same area denominator
IouGtIou(r, s) ==
    r.inter * s.uni - s.inter * r.uni > ((s.inter - r.inter) * r.den) \div EpsDen

(***************************************************************************)
(* Non-maximum suppression (one image of the batch)                        *)
(***************************************************************************)
\* Rows of the flattened prediction: A * gh * gw of them.
MaxCand == 3

SeqMax(s) == CHOOSE v \in {s[i] : i \in DOMAIN s} : \A j \in DOMAIN s : s[j] <= v

\* torch.max(class_scores, dim=1): the value and the first index holding it
\* (classes are numbered from 0).
class_conf(row) == SeqMax(row.cls)
class_pred(row) ==
    (CHOOSE i \in DOMAIN row.cls :
        /\ row.cls[i] = SeqMax(row.cls)
        /\ \A j \in DOMAIN row.cls : row.cls[j] = SeqMax(row.cls) => i <= j) - 1

\* scores = objness * class_conf, in ScoreUnit^2-ths
Score(row) == row.obj * class_conf(row)

\* The filter on the best class score alone, objectness left out: a variant
\* that C3 as amended tells from the code.
ConfMaskClassOnly(row, conf) == class_conf(row) * ConfUnit > conf * ScoreUnit

\* mask = scores > conf_threshold. The score is exact in float32, so it
\* either equals the threshold or differs from it by more than the rounding
\* of the threshold.
ConfMask(row, conf) == Score(row) * ConfUnit > conf * ScoreUnit * ScoreUnit

\* tensor[mask]: the entries whose mask bit is set, in order
MaskSelect(s, mask) ==
    LET idx == SelectSeq([i \in 1..Len(s) |-> i], LAMBDA i : mask[i])
    IN  [k \in 1..Len(idx) |-> s[idx[k]]]

\* The sort in ascending order: a variant that C7 tells from the code.
SortOrdersAscending(sc) ==
    {order \in [1..Len(sc) -> 1..Len(sc)] :
        /\ \A i, j \in 1..Len(sc) : i # j => order[i] # order[j]
        /\ \A i \in 1..(Len(sc) - 1) : sc[order[i]] <= sc[order[i + 1]]}

\* The orders scores.sort(descending=True) may return: permutations that
\* put the scores in non-increasing order. The sort is not stable, so any
\* order among equal scores is possible.
SortOrders(sc) ==
    {order \in [1..Len(sc) -> 1..Len(sc)] :
        /\ \A i, j \in 1..Len(sc) : i # j => order[i] # order[j]
        /\ \A i \in 1..(Len(sc) - 1) : sc[order[i]] >= sc[order[i + 1]]}

\* mask_keep = ious < iou_threshold, for one of the rest boxes
KeepMask(best_box, box, thr) ==
    IouLt(bbox_iou(best_box, box, 2 * Unit), thr, ThrUnit)

\* The slice tensor[0:], which keeps the best box among the rest: a variant
\* that C10 tells from the code.
Tail1WholeSlice(s) == s

\* tensor[1:]
Tail1(s) == SubSeq(s, 2, Len(s))

\* Lines 276-300: flatten, score, confidence filter, empty check, conversion
\* to corner form, sort by score.
NmsFilter ==
    /\ nms_pc = "start"
    /\ LET mask == [i \in 1..Len(prediction) |-> ConfMask(prediction[i], conf_threshold)]
           rows == MaskSelect(prediction, mask)
       IN  IF Len(rows) = 0
           THEN /\ nms_pc' = "done"
                /\ UNCHANGED <<boxes_xyxy, scores, classes>>
           ELSE \E order \in SortOrders([i \in 1..Len(rows) |-> Score(rows[i])]) :
                /\ boxes_xyxy' = [i \in 1..Len(rows) |-> xywh_to_xyxy(rows[order[i]].box)]
                /\ scores' = [i \in 1..Len(rows) |-> Score(rows[order[i]])]
                /\ classes' = [i \in 1..Len(rows) |-> class_pred(rows[order[i]])]
                /\ nms_pc' = "loop"
    /\ UNCHANGED <<prediction, conf_threshold, iou_threshold, keep, iters>>
    /\ UNCHANGED <<assignVars, iouVars>>

\* Lines 303-321: one iteration of the while loop, and the exit to line 323
\* when it was the last.
NmsIterate ==
    /\ nms_pc = "loop"
    /\ Len(boxes_xyxy) > 0
    /\ keep' = Append(keep, [box |-> boxes_xyxy[1], score |-> scores[1], cls |-> classes[1]])
    /\ iters' = iters + 1
    /\ IF Len(boxes_xyxy) = 1
       THEN /\ nms_pc' = "done"
            /\ UNCHANGED <<boxes_xyxy, scores, classes>>
       ELSE LET rest_boxes == Tail1(boxes_xyxy)
                mask_keep == [i \in 1..Len(rest_boxes) |->
                                 KeepMask(boxes_xyxy[1], rest_boxes[i], iou_threshold)]
            IN  /\ boxes_xyxy' = MaskSelect(rest_boxes, mask_keep)
                /\ scores' = MaskSelect(Tail1(scores), mask_keep)
                /\ classes' = MaskSelect(Tail1(classes), mask_keep)
                /\ nms_pc' = IF Len(boxes_xyxy') > 0 THEN "loop" ELSE "done"
    /\ UNCHANGED <<prediction, conf_threshold, iou_threshold>>
    /\ UNCHANGED <<assignVars, iouVars>>

\* Inputs: raw network outputs, (cx, cy, w, h) of height 2:
\* (-1, 0, 2, 2), (1, 0, 2, 2), (0.5, 0, 1, 2) and (0.25, 0, 0.5, 2).
CandBoxes ==
    {<<-Unit, 0, 2 * Unit, 2 * Unit>>, <<Unit, 0, 2 * Unit, 2 * Unit>>,
     <<Unit \div 2, 0, Unit, 2 * Unit>>, <<Unit \div 4, 0, Unit \div 2, 2 * Unit>>}
\* Scores 0.5 (class 0 by the tie rule), 0.625 (class 0) and 1.25 (class 1).
CandScores ==
    {[obj |-> ScoreUnit, cls |-> <<ScoreUnit \div 2, ScoreUnit \div 2>>],
     [obj |-> ScoreUnit \div 2, cls |-> <<ScoreUnit + 2, ScoreUnit \div 2>>],
     [obj |-> ScoreUnit + 2, cls |-> <<ScoreUnit \div 2, ScoreUnit>>]}
CandRows ==
    {[box |-> b, obj |-> s.obj, cls |-> s.cls] : b \in CandBoxes, s \in CandScores}
\* 0.5 is the default of both thresholds; 1.1 is above any probability.
ConfThresholds == {ConfUnit \div 2, ConfUnit + 1}
IouThresholds == {0, ThrUnit \div 2}

IdleNms ==
    /\ prediction = <<>> /\ conf_threshold = ConfUnit \div 2
    /\ iou_threshold = ThrUnit \div 2
    /\ boxes_xyxy = <<>> /\ scores = <<>> /\ classes = <<>>
    /\ keep = <<>> /\ iters = 0 /\ nms_pc = "idle"
IdleAssign == targets = <<>> /\ t = <<>> /\ gt_idx = 1 /\ loss_pc = "idle"
IdleIou ==
    /\ iou_box1 = <<>> /\ iou_box2 = <<>> /\ iou_center = <<>> /\ iou_corner = <<>>
    /\ iou_pc = "idle"

InitNMS ==
    /\ prediction \in [1..MaxCand -> CandRows]
    /\ conf_threshold \in ConfThresholds
    /\ iou_threshold \in IouThresholds
    /\ boxes_xyxy = <<>> /\ scores = <<>> /\ classes = <<>>
    /\ keep = <<>> /\ iters = 0 /\ nms_pc = "start"
    /\ IdleAssign /\ IdleIou

NextNMS == NmsFilter \/ NmsIterate

SpecNMS == InitNMS /\ [][NextNMS]_vars

(***************************************************************************)
(* Claims about non-maximum suppression                                    *)
(***************************************************************************)
\* The candidates that pass the confidence filter, as indices of prediction.
Passing == {i \in 1..Len(prediction) : ConfMask(prediction[i], conf_threshold)}

\* The detection a candidate row becomes when it is kept.
DetectionOf(row) ==
    [box |-> xywh_to_xyxy(row.box), score |-> Score(row), cls |-> class_pred(row)]

\* Intersection over union of two returned corner-form boxes exceeds the
\* threshold.
Overlaps(d1, d2) ==
    IouGt(IouOfCorners(d1.box, d2.box, 2 * Unit), iou_threshold, ThrUnit)

\* C1 (as claimed): the returned list never holds two detections whose IoU,
\* taken on their corner-form boxes, exceeds iou_threshold.
C1_NoTwoOverlapping ==
    nms_pc = "done" =>
        \A i, j \in 1..Len(keep) : i < j => ~Overlaps(keep[i], keep[j])

\* C2 (as claimed): when the two candidates that pass the confidence filter
\* have identical boxes and identical scores, and iou_threshold is below 1,
\* exactly one detection is returned.
C2_IdenticalPairKeepsOne ==
    (/\ nms_pc = "done"
     /\ iou_threshold < ThrUnit
     /\ \E i, j \in Passing :
            /\ i < j
            /\ Passing = {i, j}
            /\ prediction[i].box = prediction[j].box
            /\ Score(prediction[i]) = Score(prediction[j]))
    => Len(keep) = 1

\* C3 (as claimed): with conf_threshold = 1.1 the returned list is empty
\* whatever the objectness and class scores are.
C3_EmptyAboveOne ==
    (nms_pc = "done" /\ conf_threshold = ConfUnit + 1) => keep = <<>>

\* C3 (amended): with conf_threshold = 1.1 the returned list is empty for
\* every image none of whose candidates has objectness * best class score
\* above 1.1.
C3_EmptyWhenScoresAtMostThreshold ==
    (/\ nms_pc = "done"
     /\ conf_threshold = ConfUnit + 1
     /\ \A i \in 1..Len(prediction) :
            Score(prediction[i]) * ConfUnit <= (ConfUnit + 1) * ScoreUnit * ScoreUnit)
    => keep = <<>>

\* C3 reached: threshold 1.1, no candidate scoring above it, one of them
\* scoring above the default threshold 0.5 with a class score above 1.1, and
\* the call ended with nothing returned.
C3_Witness ==
    /\ nms_pc = "done"
    /\ conf_threshold = ConfUnit + 1
    /\ \A i \in 1..Len(prediction) :
            Score(prediction[i]) * ConfUnit <= (ConfUnit + 1) * ScoreUnit * ScoreUnit
    /\ \E i \in 1..Len(prediction) :
            /\ ConfMask(prediction[i], ConfUnit \div 2)
            /\ class_conf(prediction[i]) * ConfUnit > (ConfUnit + 1) * ScoreUnit
    /\ keep = <<>>

\* C7: the returned detections are in non-increasing order of score.
C7_DescendingScores ==
    nms_pc = "done" =>
        \A i, j \in 1..Len(keep) : i < j => keep[i].score >= keep[j].score

\* C7 reached: two detections returned with distinct scores, from candidates
\* that were not in score order in the input.
C7_Witness ==
    /\ nms_pc = "done"
    /\ Len(keep) >= 2
    /\ keep[1].score > keep[2].score
    /\ \E i, j \in Passing : i < j /\ Score(prediction[i]) < Score(prediction[j])

\* C9 (as claimed): a candidate that passes the confidence filter and whose
\* IoU with every returned detection is at most iou_threshold is returned.
C9_UnsuppressedIsReturned ==
    nms_pc = "done" =>
        \A i \in Passing :
            (\A k \in 1..Len(keep) : ~Overlaps(DetectionOf(prediction[i]), keep[k]))
            => \E k \in 1..Len(keep) : keep[k] = DetectionOf(prediction[i])

\* The counts the loop maintains, n being the number of passing candidates.
C10_Bounds ==
    /\ Len(keep) = iters
    /\ iters <= Cardinality(Passing)
    /\ nms_pc = "loop" => Len(boxes_xyxy) >= 1 /\ iters + Len(boxes_xyxy) <= Cardinality(Passing)
    /\ nms_pc = "done" =>
           IF Cardinality(Passing) = 0 THEN Len(keep) = 0
           ELSE 1 <= Len(keep) /\ Len(keep) <= Cardinality(Passing)

\* C10: the suppression loop terminates: every iteration keeps one candidate
\* and strictly shrinks the remaining set, the loop can always take its next
\* iteration while candidates remain, and with n candidates passing the
\* filter there are at most n iterations and between 1 and n detections
\* (none when n = 0).
C10_Terminates ==
    [][/\ C10_Bounds
       /\ C10_Bounds'
       /\ nms_pc = "loop" =>
            /\ Len(keep') = Len(keep) + 1
            /\ nms_pc' \in {"loop", "done"}
            /\ nms_pc' = "loop" => Len(boxes_xyxy') < Len(boxes_xyxy)]_vars

\* C10 reached: three candidates passed the filter and the loop ran three
\* times before it ended.
C10_Witness ==
    /\ nms_pc = "done"
    /\ Cardinality(Passing) = 3
    /\ iters = 3

(***************************************************************************)
(* Target assignment (YOLOLoss.forward, one image of the batch)            *)
(***************************************************************************)
IMG_SIZE == 416
\* Five MaxPool2d(2) layers of the backbone: a 13 x 13 grid.
gw == IMG_SIZE \div (2 ^ 5)
gh == IMG_SIZE \div (2 ^ 5)

\* ANCHORS, (w, h) in grid cells; anchor ids are numbered from 0.
ANCHORS == <<<<1, 1>>, <<2, 2>>, <<3, 3>>>>

\* Classes 0 .. NumClasses - 1 (the program is run with 80).
NumClasses == 3
\* Ground-truth rows of the image.
MaxBoxes == 2

\* One (anchor, gj, gi) location of torch.zeros(...): channels 0-3 the box,
\* channel 4 the objectness, channels 5.. the class vector.
ZeroEntry ==
    [x |-> 0, y |-> 0, w |-> 0, h |-> 0, obj |-> 0, cls |-> [c \in 1..NumClasses |-> 0]]

\* t is kept sparse: a location never written holds zeros.
Entry(tensor, loc) == IF loc \in DOMAIN tensor THEN tensor[loc] ELSE ZeroEntry

\* int(n / d) of Python: the quotient truncated toward zero
IntTrunc(n, d) == IF n >= 0 THEN n \div d ELSE -((-n) \div d)

\* gx = x * gw, gi = int(gx): in LabelUnit-ths of a cell, and the cell index
GridX(gt) == gt.x * gw
GridY(gt) == gt.y * gh
CellI(gt) == IntTrunc(GridX(gt), LabelUnit)
CellJ(gt) == IntTrunc(GridY(gt), LabelUnit)

\* box = [gx - gi, gy - gj, gw_box, gh_box]
GtBox(gt) ==
    <<GridX(gt) - CellI(gt) * LabelUnit, GridY(gt) - CellJ(gt) * LabelUnit,
      gt.w * gw, gt.h * gh>>

\* anchor_boxes: (0, 0, aw, ah)
AnchorBox(a) == <<0, 0, ANCHORS[a][1] * LabelUnit, ANCHORS[a][2] * LabelUnit>>

\* torch.argmax(ious): the first index holding the largest IoU, from 0
BestAnchor(gt) ==
    LET ious == [a \in 1..Len(ANCHORS) |-> bbox_iou(GtBox(gt), AnchorBox(a), LabelUnit)]
    IN  (CHOOSE a \in 1..Len(ANCHORS) :
            /\ \A b \in 1..Len(ANCHORS) : ~IouGtIou(ious[b], ious[a])
            /\ \A b \in 1..(a - 1) : IouGtIou(ious[a], ious[b])) - 1

\* An index the tensor accepts: Python also takes -size .. -1.
InRange(i, size) == -size <= i /\ i < size

\* The position an accepted index addresses: a negative one counts from the
\* end of the dimension.
WrapIndex(i, size) == IF i < 0 THEN i + size ELSE i

\* The element of t[b] the writes of lines 226-234 address.
Location(gt) ==
    <<BestAnchor(gt), WrapIndex(CellJ(gt), gh), WrapIndex(CellI(gt), gw)>>

\* The last dimension of t: channels 0 .. 5 + num_classes - 1.
ChannelCount == 5 + NumClasses

\* The index 5 + int(cls) of line 234. The class of a label is not
\* validated, so it may fall outside the class channels.
ClassChannel(gt) == 5 + gt.cls

\* Lines 226-232: objectness, offset and size.
WriteBox(old, gt) ==
    [old EXCEPT !.obj = 1,
                !.x = GtBox(gt)[1],
                !.y = GtBox(gt)[2],
                !.w = GtBox(gt)[3],
                !.h = GtBox(gt)[4]]

\* channel k of an entry (k in 0 .. ChannelCount - 1) set to 1.0
SetChannel(e, k) ==
    IF k = 0 THEN [e EXCEPT !.x = LabelUnit]
    ELSE IF k = 1 THEN [e EXCEPT !.y = LabelUnit]
    ELSE IF k = 2 THEN [e EXCEPT !.w = LabelUnit]
    ELSE IF k = 3 THEN [e EXCEPT !.h = LabelUnit]
    ELSE IF k = 4 THEN [e EXCEPT !.obj = 1]
    ELSE [e EXCEPT !.cls[k - 4] = 1]

\* Lines 226-234: the seven writes into the location's channels, for a class
\* channel the tensor accepts. The last write sets channel 5 + int(cls) only:
\* for a valid class the channel of the row's own class, for a negative
\* class an index counted from the end, which may be a box or objectness
\* channel.
WriteEntry(old, gt) ==
    SetChannel(WriteBox(old, gt), WrapIndex(ClassChannel(gt), ChannelCount))

\* Lines 204-234: one ground-truth row. The first write raises IndexError
\* when the cell is outside the grid; the last write raises it when the
\* class channel is outside the last dimension, after lines 226-232 wrote
\* objectness and box. Either ends forward.
AssignTarget ==
    /\ loss_pc = "assign"
    /\ gt_idx <= Len(targets)
    /\ LET gt == targets[gt_idx]
           loc == Location(gt)
       IN  IF ~(InRange(CellJ(gt), gh) /\ InRange(CellI(gt), gw))
           THEN /\ loss_pc' = "IndexError"
                /\ UNCHANGED <<t, gt_idx>>
           ELSE IF ~InRange(ClassChannel(gt), ChannelCount)
           THEN /\ t' = [l \in DOMAIN t \cup {loc} |->
                            IF l = loc THEN WriteBox(Entry(t, loc), gt) ELSE t[l]]
                /\ loss_pc' = "IndexError"
                /\ UNCHANGED gt_idx
           ELSE /\ t' = [l \in DOMAIN t \cup {loc} |->
                            IF l = loc THEN WriteEntry(Entry(t, loc), gt) ELSE t[l]]
                /\ gt_idx' = gt_idx + 1
                /\ loss_pc' = "assign"
    /\ UNCHANGED targets
    /\ UNCHANGED <<nmsVars, iouVars>>

\* Lines 236-261: the rows are exhausted; the loss is computed from preds and
\* t, which is not written again.
ForwardLoss ==
    /\ loss_pc = "assign"
    /\ gt_idx > Len(targets)
    /\ loss_pc' = "done"
    /\ UNCHANGED <<targets, t, gt_idx>>
    /\ UNCHANGED <<nmsVars, iouVars>>

\* Labels: class, then center and size as fractions (in LabelUnit-ths) of
\* the image. The label file is not validated (lines 71-77), so a center may
\* lie outside [0, 1], -0.9 is one that does, and a class outside
\* 0 .. NumClasses - 1: -2 and NumClasses are two.
LabelClasses == (0..(NumClasses - 1)) \cup {-2, NumClasses}
LabelXs == {1 - LabelUnit, 0, LabelUnit \div 5, LabelUnit \div 2, LabelUnit}
LabelYs == {0, LabelUnit \div 2, LabelUnit}
LabelWidths == {0, LabelUnit \div 10, LabelUnit \div 5}
LabelHeights == {LabelUnit \div 10, LabelUnit}
GtRows ==
    {[cls |-> c, x |-> x, y |-> y, w |-> w, h |-> h] :
        c \in LabelClasses, x \in LabelXs, y \in LabelYs,
        w \in LabelWidths, h \in LabelHeights}

InitAssign ==
    /\ targets \in UNION {[1..n -> GtRows] : n \in 0..MaxBoxes}
    /\ t = <<>>
    /\ gt_idx = 1
    /\ loss_pc = "assign"
    /\ IdleNms /\ IdleIou

NextAssign == AssignTarget \/ ForwardLoss

SpecAssign == InitAssign /\ [][NextAssign]_vars

(***************************************************************************)
(* Claims about target assignment                                          *)
(***************************************************************************)
\* The locations of the whole tensor whose objectness channel is 1.
ObjectLocations == {l \in DOMAIN t : t[l].obj = 1}

OneHot(c) == [k \in 1..NumClasses |-> IF k = c + 1 THEN 1 ELSE 0]

\* C4 (as claimed): on the 13 x 13 grid with anchors (1,1), (2,2), (3,3), the
\* one box of class 2 at (0.5, 0.5) with size (0.1, 0.1) is written at cell
\* (gj, gi) = (6, 6) under anchor 0, offset (0.5, 0.5), one-hot class 2.
C4_ScenarioAnchorZero ==
    (/\ loss_pc = "done"
     /\ gw = 13 /\ gh = 13
     /\ targets = <<[cls |-> 2, x |-> LabelUnit \div 2, y |-> LabelUnit \div 2,
                     w |-> LabelUnit \div 10, h |-> LabelUnit \div 10]>>)
    => /\ ObjectLocations = {<<0, 6, 6>>}
       /\ Entry(t, <<0, 6, 6>>).x = LabelUnit \div 2
       /\ Entry(t, <<0, 6, 6>>).y = LabelUnit \div 2
       /\ Entry(t, <<0, 6, 6>>).cls = OneHot(2)

\* C5 (as claimed): for one ground-truth box with a valid class and center
\* and size within [0, 1], assignment completes with objectness 1 at exactly
\* one location inside the grid and 0 everywhere else.
C5_OneBoxOneLocation ==
    (/\ Len(targets) = 1
     /\ targets[1].cls \in 0..(NumClasses - 1)
     /\ \A v \in {targets[1].x, targets[1].y, targets[1].w, targets[1].h} :
            0 <= v /\ v <= LabelUnit
     /\ (gt_idx > 1 \/ loss_pc # "assign"))
    => /\ loss_pc \in {"assign", "done"}
       /\ \E l \in DOMAIN t :
            /\ ObjectLocations = {l}
            /\ l[1] \in 0..(Len(ANCHORS) - 1)
            /\ l[2] \in 0..(gh - 1)
            /\ l[3] \in 0..(gw - 1)
       /\ \A l \in DOMAIN t : t[l].obj \in {0, 1}

\* C6 (as claimed): when two boxes of the image, of any two valid classes,
\* map to the same (anchor, cell), the entry there equals the entry the later
\* box alone would have produced.
C6_LaterBoxOverwrites ==
    (/\ loss_pc = "done"
     /\ Len(targets) = 2
     /\ \A i \in 1..2 : targets[i].cls \in 0..(NumClasses - 1)
     /\ Location(targets[1]) = Location(targets[2]))
    => Entry(t, Location(targets[2])) = WriteEntry(ZeroEntry, targets[2])

(***************************************************************************)
(* bbox_iou on one pair of boxes, given in each encoding                   *)
(***************************************************************************)
\* Lines 91-116 called twice on the same two rectangles: once with the
\* boxes in center form, once with the same boxes in corner form.
BboxIouCalls ==
    /\ iou_pc = "start"
    /\ iou_center' = bbox_iou(iou_box1, iou_box2, Unit)
    /\ iou_corner' = bbox_iou(xywh_to_xyxy(iou_box1), xywh_to_xyxy(iou_box2), 2 * Unit)
    /\ iou_pc' = "called"
    /\ UNCHANGED <<iou_box1, iou_box2>>
    /\ UNCHANGED <<nmsVars, assignVars>>

\* Center-form boxes in whole grid units.
IouBoxes ==
    {<<cx, cy, w, 2 * Unit>> :
        cx \in {0, Unit, 2 * Unit}, cy \in {0, Unit}, w \in {Unit, 2 * Unit}}

InitIoU ==
    /\ iou_box1 \in IouBoxes
    /\ iou_box2 \in IouBoxes
    /\ iou_center = <<>>
    /\ iou_corner = <<>>
    /\ iou_pc = "start"
    /\ IdleNms /\ IdleAssign

NextIoU == BboxIouCalls

SpecIoU == InitIoU /\ [][NextIoU]_vars

\* Two IoU values agree up to the eps in their denominators: the ratios
\* inter / uni are equal (both 0 when a union is empty), whatever the
\* denominators of the areas.
IouAgree(r, s) ==
    /\ r.inter * s.uni = s.inter * r.uni
    /\ r.uni = 0 => s.inter = 0
    /\ s.uni = 0 => r.inter = 0

\* C8 (as claimed): bbox_iou returns the same value for two boxes given in
\* corner form as for the same boxes given in center form, the intersection
\* over union of the two rectangles.
C8_EitherEncoding ==
    iou_pc = "called" =>
        /\ IouAgree(iou_corner, iou_center)
        /\ IouAgree(iou_corner,
                    IouOfCorners(xywh_to_xyxy(iou_box1), xywh_to_xyxy(iou_box2), 2 * Unit))

(***************************************************************************)
(* The three operations together                                           *)
(***************************************************************************)
Init == InitNMS \/ InitAssign \/ InitIoU

Next == NextNMS \/ NextAssign \/ NextIoU

Spec == Init /\ [][Next]_vars

====
